---- MODULE Spec2Model ----
(***************************************************************************)
(* Model of pow_faucet_discord_bot.py: the register_address / claim /      *)
(* whoami command handlers, the flock-based FileLock, the JSON store       *)
(* (load_data / save_data) and the startup hook resolving the faucet       *)
(* sender address.                                                         *)
(*                                                                         *)
(* Every command invocation is a request r; up to two are in progress at   *)
(* once, in one bot process or in several sharing DATA_FILE and LOCK_FILE. *)
(* A handler is cut into steps at its system calls on shared state (lock,  *)
(* data file, temp file, clock) and at its network await.  Strings are     *)
(* sequences of one-character strings.                                     *)
(***************************************************************************)
EXTENDS Integers, Sequences, FiniteSets, TLC

\* ---------------------------------------------------------------- bounds
\* The clock now_ts() ranges over 0..MaxTime.
MaxTime == 3
\* At most MaxOps commands, process restarts and crashes per run.
MaxOps == 3

\* ------------------------------------------------------------- constants
\* FAUCET_COOLDOWN_SECONDS, taken from the environment (line 19).
COOLDOWN_SECONDS == 2
\* The {40} of ADDR_RE (line 31).
ADDR_LEN == 40

Users == {"u1", "u2"}
\* Two commands may be in progress at once, in this bot process or in another
\* instance sharing DATA_FILE and LOCK_FILE: handlers interleave at every
\* step, not only at their awaits.  Request ids carry no meaning: a new
\* command takes the lowest idle one.
Reqs == {1, 2}

\* ---------------------------------------------------------------- strings
RECURSIVE Rep(_, _)
Rep(c, n) == IF n = 0 THEN <<>> ELSE Append(Rep(c, n - 1), c)

HexChars == {"0", "1", "2", "3", "4", "5", "6", "7", "8", "9",
             "a", "b", "c", "d", "e", "f", "A", "B", "C", "D", "E", "F"}
Whitespace == {" ", "\t", "\n"}

\* str.lower() on one character (only hex letters pass ADDR_RE).
LowerChar(c) ==
    CASE c = "A" -> "a" [] c = "B" -> "b" [] c = "C" -> "c"
      [] c = "D" -> "d" [] c = "E" -> "e" [] c = "F" -> "f"
      [] OTHER -> c

\* str.lower()
RECURSIVE Lower(_)
Lower(s) ==
    IF Len(s) = 0 THEN <<>>
    ELSE Append(Lower(SubSeq(s, 1, Len(s) - 1)), LowerChar(s[Len(s)]))

RECURSIVE LStrip(_)
LStrip(s) == IF Len(s) > 0 /\ Head(s) \in Whitespace THEN LStrip(Tail(s)) ELSE s

RECURSIVE RStrip(_)
RStrip(s) ==
    IF Len(s) > 0 /\ s[Len(s)] \in Whitespace
    THEN RStrip(SubSeq(s, 1, Len(s) - 1))
    ELSE s

\* str.strip()
Strip(s) == RStrip(LStrip(s))

\* ADDR_RE.match(s) for ^[0-9a-fA-F]{40}$ : Python's $ also matches just
\* before one trailing newline.
ADDR_RE_match(s) ==
    /\ \/ Len(s) = ADDR_LEN
       \/ Len(s) = ADDR_LEN + 1 /\ s[ADDR_LEN + 1] = "\n"
    /\ \A i \in 1..ADDR_LEN : s[i] \in HexChars

\* A normalize_addr that returns the stripped string in the case given.
normalize_addr_nolower(address) ==
    LET a == Strip(address)
    IN  IF ADDR_RE_match(a)
        THEN [ok |-> TRUE, value |-> a]
        ELSE [ok |-> FALSE, value |-> <<>>]

\* normalize_addr: ok = FALSE stands for the ValueError.
normalize_addr(address) ==
    LET a == Strip(address)
    IN  IF ADDR_RE_match(a)
        THEN [ok |-> TRUE, value |-> Lower(a)]
        ELSE [ok |-> FALSE, value |-> <<>>]

\* --------------------------------------------------------------- inputs
OperatorAddr == Rep("a", ADDR_LEN)
AddrB == Rep("b", ADDR_LEN)

\* The address argument of /register_address.
RawAddresses ==
    { OperatorAddr, AddrB,
      Rep("A", ADDR_LEN),
      <<" ">> \o Rep("B", ADDR_LEN) \o <<"\n">>,
      Rep("b", ADDR_LEN - 1),
      Rep("g", ADDR_LEN),
      <<>> }

\* normalize_addr on each input, computed once.
Normalized == [a \in RawAddresses |-> normalize_addr(a)]

\* Strings given to normalize_addr on its own: a run of one character, then
\* a run of another, of lengths around ADDR_LEN, between two paddings of at
\* most MaxPad blanks (or a newline, or a tab); and the empty string.
MaxPad == 2
Pads == {Rep(" ", n) : n \in 0..MaxPad} \cup {<<"\n">>, <<"\t">>}
InputChars == {"a", "F", "0", "g", " "}
NormInputs ==
    { pre \o Rep(c1, n1) \o Rep(c2, n2) \o suf :
        pre \in Pads, suf \in Pads, c1 \in InputChars, c2 \in InputChars,
        n1 \in {0, 1}, n2 \in (ADDR_LEN - 2)..(ADDR_LEN + 1) }
    \cup {<<>>}

\* normalize_addr on each of them, computed once.
NormalizedInputs == [a \in NormInputs |-> normalize_addr(a)]

\* What /me answers with: the account_id, or nothing usable.
MeResponses ==
    { [ok |-> TRUE, account_id |-> OperatorAddr],
      [ok |-> TRUE, account_id |-> Rep("A", ADDR_LEN)],
      [ok |-> TRUE, account_id |-> Rep("a", ADDR_LEN - 1)],
      [ok |-> FALSE, account_id |-> <<>>] }

\* Substrings of the /transfer response text that claim() looks for.
Markers == {"unknown recipient address", "(404)", "insufficient credits", "(400)"}

\* What POST /transfer ends with: an HTTP status and a body (the set of
\* markers its text contains; json = the body parses as JSON), or a timeout.
TransferResponses ==
    [status : {200}, body : {{}}, json : BOOLEAN, timeout : {FALSE}]
    \cup [status : {400, 404, 500}, body : {{}} \cup {{k} : k \in Markers},
          json : {TRUE}, timeout : {FALSE}]
    \cup { [status |-> 0, body |-> {}, json |-> FALSE, timeout |-> TRUE] }

\* ---------------------------------------------------------------- state
VARIABLES
    now,             \* the wall clock read by now_ts()
    store,           \* DATA_FILE: identity -> record (empty: no file yet)
    tmp,             \* DATA_FILE + ".tmp"
    lockHolders,     \* requests holding flock(LOCK_EX) on LOCK_FILE
    sender_address,  \* bot.sender_address (<<>> is None)
    pc,              \* where each request's handler stands
    user,            \* interaction.user.id
    addr,            \* register_address: the normalized address
    to_addr,         \* claim: rec["address"]
    t,               \* the value now_ts() returned to the handler
    reply,           \* the exchange of the step just taken: argument in, message out
    committed,       \* history: the t of each identity's latest claim commit
    ops              \* commands and restarts so far

vars == <<now, store, tmp, lockHolders, sender_address, pc, user, addr,
          to_addr, t, reply, committed, ops>>

\* A handler's t before now_ts() was called; a record's missing key.
NoTime == 0 - 1
Absent == 0 - 1
None == <<>>
NoUser == "-"
EmptyLedger == [u \in {} |-> 0]
NoTmp == [state |-> "absent", content |-> EmptyLedger]

\* No /transfer answer arrived in the step.
NoResponse == [status |-> 0, body |-> {}, json |-> FALSE, timeout |-> FALSE]

\* The exchange of a step: the address argument it received (arg), the
\* /transfer answer it received when that failed (resp), the kind of message
\* it sent, the address the message shows, the remaining cooldown
\* computed (rem) and the hours and minutes of it the text shows.
Msg(k) ==
    [to |-> 0, user |-> NoUser, kind |-> k, arg |-> <<>>, resp |-> NoResponse,
     addr |-> <<>>, rem |-> 0, h |-> 0, m |-> 0, sender |-> <<>>]
MsgAddr(k, a) == [Msg(k) EXCEPT !.addr = a]
MsgCooldown(k, a, rem, sa) ==
    [Msg(k) EXCEPT !.addr = a, !.rem = rem, !.h = rem \div 3600,
                   !.m = (rem % 3600) \div 60, !.sender = sa]
NoReply == Msg("none")

\* ---------------------------------------------------------- persistence
\* A get_user that makes up a record for an identity that has none.
get_user_default(d, u) ==
    IF u \in DOMAIN d THEN <<d[u]>>
    ELSE <<[address |-> AddrB, registered_at |-> 0 - 1, last_claim_at |-> 0]>>

\* get_user: <<>> for None, <<record>> otherwise.
get_user(d, u) == IF u \in DOMAIN d THEN <<d[u]>> ELSE None

\* A set_user that keeps no record but the one it sets.
set_user_alone(d, u, r) == [x \in {u} |-> r]

\* set_user: the ledger with u's record set to r.
set_user(d, u, r) == [x \in (DOMAIN d) \cup {u} |-> IF x = u THEN r ELSE d[x]]

\* load_data: the file's ledger; {"users": {}} when there is no file.
load_data == store

\* save_data, first half: the snapshot written to the temp file.
save_tmp(d) == [state |-> "complete", content |-> d]

\* save_data, first half failing part-way (open or json.dump raising).
save_tmp_failed == [state |-> "partial", content |-> EmptyLedger]

\* save_data, second half: os.replace(tmp, DATA_FILE).
os_replace == tmp.content

\* ------------------------------------------------------------- FileLock
\* A flock without exclusion: the lock is granted whoever holds it.
acquire_shared(r) == lockHolders' = lockHolders \cup {r}

\* FileLock.acquire: flock(LOCK_EX) returns once nobody else holds it.
acquire(r) == lockHolders = {} /\ lockHolders' = {r}

\* FileLock.release / __exit__
release(r) == lockHolders' = lockHolders \ {r}

\* --------------------------------------------------------------- helpers
\* The handler of request r ends, having sent msg to user u.
FinishU(r, u, msg) ==
    /\ pc' = [pc EXCEPT ![r] = "idle"]
    /\ reply' = [msg EXCEPT !.to = r, !.user = u]
    /\ user' = [user EXCEPT ![r] = NoUser]
    /\ addr' = [addr EXCEPT ![r] = None]
    /\ to_addr' = [to_addr EXCEPT ![r] = None]
    /\ t' = [t EXCEPT ![r] = NoTime]

Finish(r, msg) == FinishU(r, user[r], msg)

\* A command arrives and takes request id r.
CanStart(r) ==
    /\ pc[r] = "idle"
    /\ \A q \in Reqs : q < r => pc[q] # "idle"
    /\ ops < MaxOps
    /\ ops' = ops + 1

\* Lines 151-164: bot.sender_address after setup_hook got the answer me from
\* /me (None when the call failed or the account_id is no address).
Resolve(me) ==
    IF me.ok /\ ADDR_RE_match(me.account_id) THEN Lower(me.account_id) ELSE None

\* A guard that never fires.
IsSender_off(a) == FALSE

\* Lines 203 and 251: the address is the resolved faucet sender address.
IsSender(a) == sender_address # None /\ a = sender_address

\* The bot object is constructed (line 151) and there is no store yet.
Init ==
    /\ now = 0
    /\ store = EmptyLedger
    /\ tmp = NoTmp
    /\ lockHolders = {}
    /\ sender_address = None
    /\ pc = [r \in Reqs |-> "idle"]
    /\ user = [r \in Reqs |-> NoUser]
    /\ addr = [r \in Reqs |-> None]
    /\ to_addr = [r \in Reqs |-> None]
    /\ t = [r \in Reqs |-> NoTime]
    /\ reply = NoReply
    /\ committed = [u \in Users |-> NoTime]
    /\ ops = 0

\* The clock advances.  Time is observed only where a handler calls now_ts()
\* (lines 214, 261, 332): an advance is taken when some handler is about to.
Tick ==
    /\ now < MaxTime
    /\ \E r \in Reqs : pc[r] \in {"r_load", "c_load", "w_load"}
    /\ now' = now + 1
    /\ reply' = NoReply
    /\ UNCHANGED <<store, tmp, lockHolders, sender_address, pc, user, addr,
                   to_addr, t, committed, ops>>

\* setup_hook runs when the process starts, and again when it is restarted
\* between commands: the sender address is resolved afresh.
setup_hook ==
    /\ ops < MaxOps
    /\ ops' = ops + 1
    /\ \A r \in Reqs : pc[r] = "idle"
    /\ \E me \in MeResponses : sender_address' = Resolve(me)
    /\ reply' = NoReply
    /\ UNCHANGED <<now, store, tmp, lockHolders, pc, user, addr, to_addr, t,
                   committed>>

\* ------------------------------------------------------ register_address
\* Lines 186-208 for user u, argument address (n is normalize_addr of it):
\* channel check, normalize_addr, sender-address check.  seen is what the
\* exchange keeps of the argument.
RegisterWith(r, u, address, allowed, n, seen) ==
    IF ~allowed THEN FinishU(r, u, Msg("NotAllowed"))
    ELSE IF ~n.ok
         THEN FinishU(r, u, [Msg("InvalidFormat") EXCEPT !.arg = seen])
    ELSE IF IsSender(n.value)
         THEN FinishU(r, u, [Msg("SelfAddress") EXCEPT !.arg = seen])
    ELSE /\ pc' = [pc EXCEPT ![r] = "r_lock"]
         /\ user' = [user EXCEPT ![r] = u]
         /\ addr' = [addr EXCEPT ![r] = n.value]
         /\ reply' = [NoReply EXCEPT !.arg = seen]
         /\ UNCHANGED <<to_addr, t>>

\* /register_address arrives.
register_address(r) ==
    /\ CanStart(r)
    /\ \E u \in Users, address \in RawAddresses, allowed \in BOOLEAN :
          RegisterWith(r, u, address, allowed, Normalized[address], <<>>)
    /\ UNCHANGED <<now, store, tmp, lockHolders, sender_address, committed>>

\* Line 210: with FileLock(LOCK_FILE)
RegAcquire(r) ==
    /\ pc[r] = "r_lock"
    /\ acquire(r)
    /\ pc' = [pc EXCEPT ![r] = "r_load"]
    /\ reply' = NoReply
    /\ UNCHANGED <<now, store, tmp, sender_address, user, addr, to_addr, t,
                   committed, ops>>

\* A registration that starts the record afresh.
RegRecord_reset(old, a, ts) ==
    [address |-> a, registered_at |-> ts, last_claim_at |-> 0]

\* Lines 212-215: the record register_address stores.
RegRecord(old, a, ts) ==
    [address |-> a,
     registered_at |-> ts,
     last_claim_at |-> IF old = None THEN 0 ELSE old[1].last_claim_at]

\* Lines 211-217, up to the temp file being written by save_data.
RegSave(r) ==
    /\ pc[r] = "r_load"
    /\ LET data == load_data
           rec == RegRecord(get_user(data, user[r]), addr[r], now)
       IN  tmp' = save_tmp(set_user(data, user[r], rec))
    /\ t' = [t EXCEPT ![r] = now]
    /\ pc' = [pc EXCEPT ![r] = "r_replace"]
    /\ reply' = NoReply
    /\ UNCHANGED <<now, store, lockHolders, sender_address, user, addr,
                   to_addr, committed, ops>>

\* Line 99 within line 217: os.replace(tmp, DATA_FILE).
RegReplace(r) ==
    /\ pc[r] = "r_replace"
    /\ store' = os_replace
    /\ tmp' = NoTmp
    /\ pc' = [pc EXCEPT ![r] = "r_unlock"]
    /\ reply' = NoReply
    /\ UNCHANGED <<now, lockHolders, sender_address, user, addr, to_addr, t,
                   committed, ops>>

\* The with block ends (lock released); lines 219-225: the confirmation.
RegRelease(r) ==
    /\ pc[r] = "r_unlock"
    /\ release(r)
    /\ Finish(r, MsgAddr("Registered", addr[r]))
    /\ UNCHANGED <<now, store, tmp, sender_address, committed, ops>>

\* A lock dropped only when the block ends normally.
FileLock_exit_leak(r) == lockHolders' = lockHolders

\* FileLock.__exit__ (lines 81-82), entered with an exception: release().
FileLock_exit(r) == release(r)

\* An error that is swallowed: the handler carries on to its success message.
Propagate_swallowed(r) ==
    Finish(r, MsgAddr(IF pc[r] = "r_load" THEN "Registered" ELSE "ClaimOK", addr[r]))

\* No try/except surrounds the with blocks (lines 210-217, 240-242, 298-304,
\* 322-324): the exception leaves the handler, whose remaining lines, the
\* success message included, do not run.
Propagate(r) == Finish(r, Msg("Raised"))

\* load_data or save_data raises inside a with block (lines 211, 217, 241,
\* 299, 304, 323): __exit__ releases the lock and the exception leaves the
\* handler; save_data may leave a partial temp file behind.
Raise(r) ==
    /\ pc[r] \in {"r_load", "c_load", "c_load2", "w_load"}
    /\ \/ tmp' = tmp
       \/ pc[r] \in {"r_load", "c_load2"} /\ tmp' = save_tmp_failed
    /\ FileLock_exit(r)
    /\ Propagate(r)
    /\ UNCHANGED <<now, store, sender_address, committed, ops>>

\* ----------------------------------------------------------------- claim
\* Lines 229-238: channel check (FAUCET_SENDER_SECRET is configured).
claim(r) ==
    /\ CanStart(r)
    /\ \E u \in Users, allowed \in BOOLEAN :
          IF ~allowed THEN FinishU(r, u, Msg("NotAllowed"))
          ELSE /\ pc' = [pc EXCEPT ![r] = "c_lock"]
               /\ user' = [user EXCEPT ![r] = u]
               /\ reply' = NoReply
               /\ UNCHANGED <<addr, to_addr, t>>
    /\ UNCHANGED <<now, store, tmp, lockHolders, sender_address, committed>>

\* Line 240: with FileLock(LOCK_FILE)
ClaimAcquire(r) ==
    /\ pc[r] = "c_lock"
    /\ acquire(r)
    /\ pc' = [pc EXCEPT ![r] = "c_load"]
    /\ reply' = NoReply
    /\ UNCHANGED <<now, store, tmp, sender_address, user, addr, to_addr, t,
                   committed, ops>>

\* A cooldown that still holds at the very end of the window.
CooldownActive_late(last_claim, ts) ==
    last_claim # 0 /\ ts <= last_claim + COOLDOWN_SECONDS

\* Line 262: the cooldown test on last_claim and t.
CooldownActive(last_claim, ts) ==
    last_claim # 0 /\ ts < last_claim + COOLDOWN_SECONDS

\* A first with block that stays open across the rest of the handler.
ReadSectionExit_open(r) == lockHolders' = lockHolders

\* Line 242 is the last line of the first with block: on leaving it
\* FileLock.__exit__ releases the lock, before the checks and the transfer.
ReadSectionExit(r) == release(r)

\* Lines 241-267: the record is read and the lock released; then, with no
\* await in between: not registered, sender-address check, cooldown.  A
\* request that passes issues the transfer (line 272).
ClaimCheck(r) ==
    /\ pc[r] = "c_load"
    /\ ReadSectionExit(r)
    /\ LET rec == get_user(load_data, user[r])
           registered == rec # None /\ rec[1].address # <<>>
           last_claim == rec[1].last_claim_at
       IN  IF ~registered THEN Finish(r, Msg("NotRegistered"))
           ELSE IF IsSender(rec[1].address)
                THEN Finish(r, Msg("SelfAddressClaim"))
           ELSE IF CooldownActive(last_claim, now)
                THEN Finish(r, MsgCooldown("Cooldown", <<>>,
                                (last_claim + COOLDOWN_SECONDS) - now, <<>>))
           ELSE /\ to_addr' = [to_addr EXCEPT ![r] = rec[1].address]
                /\ t' = [t EXCEPT ![r] = now]
                /\ pc' = [pc EXCEPT ![r] = "c_transfer"]
                /\ reply' = NoReply
                /\ UNCHANGED <<user, addr>>
    /\ UNCHANGED <<now, store, tmp, sender_address, committed, ops>>

\* api_transfer returns the parsed body: status 200 and a JSON body.
api_transfer_ok(resp) == ~resp.timeout /\ resp.status = 200 /\ resp.json

\* Whether str(e) of the exception api_transfer ended with contains marker:
\* a RuntimeError carries "/transfer failed (<status>): <text>"; a timeout
\* and a JSON decoding error carry neither the status nor the text.
msg_contains(resp, marker) ==
    /\ ~resp.timeout
    /\ resp.status # 200
    /\ \/ marker \in resp.body
       \/ marker = "(404)" /\ resp.status = 404
       \/ marker = "(400)" /\ resp.status = 400

\* Lines 273-295: the reply to a failed transfer.
FailureReply(resp) ==
    IF msg_contains(resp, "unknown recipient address") \/ msg_contains(resp, "(404)")
    THEN Msg("UnknownRecipient")
    ELSE IF msg_contains(resp, "insufficient credits") \/ msg_contains(resp, "(400)")
         THEN Msg("Insufficient")
         ELSE Msg("Generic")

\* A transfer whose failure still stamps the cooldown.
AfterFailure_stamp(r) ==
    store' = [store EXCEPT ![user[r]].last_claim_at = t[r]]

\* Lines 273-295: a failed transfer leaves the store alone.
AfterFailure(r) == store' = store

\* Lines 270-295: the transfer call ends with resp.  seen is what the
\* exchange keeps of a failed answer.
ClaimTransferWith(r, resp, seen) ==
    /\ pc[r] = "c_transfer"
    /\ IF api_transfer_ok(resp)
       THEN /\ pc' = [pc EXCEPT ![r] = "c_lock2"]
            /\ reply' = NoReply
            /\ UNCHANGED <<store, user, addr, to_addr, t>>
       ELSE /\ Finish(r, [FailureReply(resp) EXCEPT !.resp = seen])
            /\ AfterFailure(r)
    /\ UNCHANGED <<now, tmp, lockHolders, sender_address, committed, ops>>

ClaimTransfer(r) ==
    \E resp \in TransferResponses : ClaimTransferWith(r, resp, NoResponse)

\* Line 298: with FileLock(LOCK_FILE)
CommitAcquire(r) ==
    /\ pc[r] = "c_lock2"
    /\ acquire(r)
    /\ pc' = [pc EXCEPT ![r] = "c_load2"]
    /\ reply' = NoReply
    /\ UNCHANGED <<now, store, tmp, sender_address, user, addr, to_addr, t,
                   committed, ops>>

\* A commit that keeps the address of the record it re-reads.
CommitRecord_reread(old, a, ts) ==
    [address |-> IF old = None THEN a ELSE old[1].address,
     registered_at |-> IF old = None THEN Absent ELSE old[1].registered_at,
     last_claim_at |-> ts]

\* Lines 300-302: the record claim stores.
CommitRecord(old, a, ts) ==
    [address |-> a,
     registered_at |-> IF old = None THEN Absent ELSE old[1].registered_at,
     last_claim_at |-> ts]

\* Lines 299-304, up to the temp file being written by save_data.
CommitSave(r) ==
    /\ pc[r] = "c_load2"
    /\ LET data2 == load_data
           rec2 == CommitRecord(get_user(data2, user[r]), to_addr[r], t[r])
       IN  tmp' = save_tmp(set_user(data2, user[r], rec2))
    /\ pc' = [pc EXCEPT ![r] = "c_replace2"]
    /\ reply' = NoReply
    /\ UNCHANGED <<now, store, lockHolders, sender_address, user, addr,
                   to_addr, t, committed, ops>>

\* Line 99 within line 304: os.replace(tmp, DATA_FILE).
CommitReplace(r) ==
    /\ pc[r] = "c_replace2"
    /\ store' = os_replace
    /\ tmp' = NoTmp
    /\ committed' = [committed EXCEPT ![user[r]] = t[r]]
    /\ pc' = [pc EXCEPT ![r] = "c_unlock2"]
    /\ reply' = NoReply
    /\ UNCHANGED <<now, lockHolders, sender_address, user, addr, to_addr, t, ops>>

\* The with block ends; lines 306-313: the success message.
CommitRelease(r) ==
    /\ pc[r] = "c_unlock2"
    /\ release(r)
    /\ Finish(r, MsgAddr("ClaimOK", to_addr[r]))
    /\ UNCHANGED <<now, store, tmp, sender_address, committed, ops>>

\* ---------------------------------------------------------------- whoami
\* Lines 317-320: channel check.
whoami(r) ==
    /\ CanStart(r)
    /\ \E u \in Users, allowed \in BOOLEAN :
          IF ~allowed THEN FinishU(r, u, Msg("NotAllowed"))
          ELSE /\ pc' = [pc EXCEPT ![r] = "w_lock"]
               /\ user' = [user EXCEPT ![r] = u]
               /\ reply' = NoReply
               /\ UNCHANGED <<addr, to_addr, t>>
    /\ UNCHANGED <<now, store, tmp, lockHolders, sender_address, committed>>

\* Line 322: with FileLock(LOCK_FILE)
WhoAcquire(r) ==
    /\ pc[r] = "w_lock"
    /\ acquire(r)
    /\ pc' = [pc EXCEPT ![r] = "w_load"]
    /\ reply' = NoReply
    /\ UNCHANGED <<now, store, tmp, sender_address, user, addr, to_addr, t,
                   committed, ops>>

\* A status that turns ready one second after the window has ended.
IsReady_after(last_claim, ts) ==
    last_claim = 0 \/ ts > last_claim + COOLDOWN_SECONDS

\* Line 334: the test under which whoami shows "ready".
IsReady(last_claim, ts) ==
    last_claim = 0 \/ ts >= last_claim + COOLDOWN_SECONDS

\* Lines 323-347: the record is read and the lock released; then, with no
\* await in between, the status is computed and shown.
WhoReply(r) ==
    /\ pc[r] = "w_load"
    /\ release(r)
    /\ LET sa == sender_address
           rec == get_user(load_data, user[r])
           registered == rec # None /\ rec[1].address # <<>>
           last_claim == rec[1].last_claim_at
       IN  IF ~registered THEN Finish(r, Msg("WhoAmINotRegistered"))
           ELSE IF IsReady(last_claim, now)
                THEN Finish(r, MsgCooldown("WhoAmIReady", rec[1].address, 0, sa))
                ELSE Finish(r, MsgCooldown("WhoAmIRemaining", rec[1].address,
                                (last_claim + COOLDOWN_SECONDS) - now, sa))
    /\ UNCHANGED <<now, store, tmp, sender_address, committed, ops>>

\* ------------------------------------------------------------------ spec
\* Every step but the end of a transfer call.
Others ==
    \/ Tick
    \/ setup_hook
    \/ \E r \in Reqs :
          \/ register_address(r) \/ RegAcquire(r) \/ RegSave(r)
          \/ RegReplace(r) \/ RegRelease(r)
          \/ claim(r) \/ ClaimAcquire(r) \/ ClaimCheck(r)
          \/ CommitAcquire(r) \/ CommitSave(r)
          \/ CommitReplace(r) \/ CommitRelease(r)
          \/ whoami(r) \/ WhoAcquire(r) \/ WhoReply(r)
          \/ Raise(r)

Next == Others \/ \E r \in Reqs : ClaimTransfer(r)

Spec == Init /\ [][Next]_vars

\* ---------------------------------------------------------------- claims
\* The handler of r has its transfer confirmed and has not yet committed.
TransferConfirmed(r) == pc[r] = "c_lock2"

\* The stages of claim() after a confirmed transfer.
CommitPhase == {"c_lock2", "c_load2", "c_replace2", "c_unlock2"}

\* The stages of a handler inside a with FileLock block.
LockedStages ==
    {"r_load", "r_replace", "r_unlock", "c_load", "c_load2", "c_replace2",
     "c_unlock2", "w_load"}

\* The stages of a handler waiting for the lock.
WaitingStages == {"r_lock", "c_lock", "c_lock2", "w_lock"}

\* ------------------------------------------ the transfer answer observed
\* As ClaimTransfer, the exchange keeping the answer that failed.
ClaimTransferObserved(r) ==
    \E resp \in TransferResponses : ClaimTransferWith(r, resp, resp)

NextObserved == Others \/ \E r \in Reqs : ClaimTransferObserved(r)

SpecObserved == Init /\ [][NextObserved]_vars

\* ------------------------------------------------- normalize_addr alone
\* The first command is /register_address with any of NormInputs, in an
\* allowed channel.
register_address_input(r) ==
    /\ ops = 0
    /\ CanStart(r)
    /\ \E u \in Users, address \in NormInputs :
          RegisterWith(r, u, address, TRUE, NormalizedInputs[address], address)
    /\ UNCHANGED <<now, store, tmp, lockHolders, sender_address, committed>>

NextNormalize == \E r \in Reqs : register_address_input(r)

SpecNormalize == Init /\ [][NextNormalize]_vars

\* ----------------------------------------------------------------- crash
\* The stages of a handler inside save_data: writing the temp file (lines
\* 96-98), between the write and os.replace, and after os.replace (line 99).
SaveStages ==
    {"r_load", "r_replace", "r_unlock", "c_load2", "c_replace2", "c_unlock2"}

\* A save_data that writes DATA_FILE itself: a crash part-way through the
\* write leaves the truncated file in place of the ledger.
CrashFiles_inplace(r) ==
    /\ tmp' = tmp
    /\ \/ store' = store
       \/ pc[r] \in {"r_load", "c_load2"} /\ store' = save_tmp_failed.content

\* Lines 95-99: what a crash of the process leaves on disk.  Only the temp
\* file is ever written to; DATA_FILE changes by os.replace alone.
CrashFiles(r) ==
    /\ store' = store
    /\ \/ tmp' = tmp
       \/ pc[r] \in {"r_load", "c_load2"} /\ tmp' = save_tmp_failed

\* The process handling request r dies (with it the other request, when the
\* same process handles both): the handlers end without a reply and the
\* kernel drops the flocks of the dead process (r is the one inside a locked
\* section, if either is).  A restart is setup_hook.
Crash(r) ==
    /\ pc[r] # "idle"
    /\ ops < MaxOps
    /\ ops' = ops + 1
    /\ CrashFiles(r)
    /\ \E S \in SUBSET Reqs :
          /\ r \in S
          /\ \A q \in S : pc[q] # "idle"
          /\ \A q \in S \ {r} : pc[q] \notin LockedStages
          /\ lockHolders' = lockHolders \ S
          /\ pc' = [q \in Reqs |-> IF q \in S THEN "idle" ELSE pc[q]]
          /\ user' = [q \in Reqs |-> IF q \in S THEN NoUser ELSE user[q]]
          /\ addr' = [q \in Reqs |-> IF q \in S THEN None ELSE addr[q]]
          /\ to_addr' = [q \in Reqs |-> IF q \in S THEN None ELSE to_addr[q]]
          /\ t' = [q \in Reqs |-> IF q \in S THEN NoTime ELSE t[q]]
    /\ reply' = NoReply
    /\ UNCHANGED <<now, sender_address, committed>>

NextCrash == Next \/ \E r \in Reqs : Crash(r)

SpecCrash == Init /\ [][NextCrash]_vars

\* C1 (as stated): two concurrent claims of one identity never both pass the
\* cooldown check and both obtain a successful transfer before either has
\* committed.
C1_NoDoubleSpend ==
    \A r1, r2 \in Reqs :
        (r1 # r2 /\ user[r1] = user[r2] /\ TransferConfirmed(r1))
            => ~TransferConfirmed(r2)

\* C2: a claim whose transfer call fails (any status, body or timeout) ends
\* with a failure reply in a step that leaves the store as it was, so the
\* identity's record, last_claim_at included, is what it was before.
C2_NoPhantomCommit ==
    [][\A r \in Reqs :
          (pc[r] = "c_transfer" /\ pc'[r] = "idle")
              => /\ store' = store
                 /\ reply'.to = r
                 /\ reply'.kind \in {"UnknownRecipient", "Insufficient", "Generic"}]_vars

\* C2 witness: a claim has just failed at its transfer for an identity whose
\* record carries an earlier cooldown.
C2_Witness ==
    /\ reply.kind \in {"UnknownRecipient", "Insufficient", "Generic"}
    /\ reply.user \in DOMAIN store
    /\ store[reply.user].last_claim_at # 0
    /\ store[reply.user].last_claim_at = committed[reply.user]

\* C3: for a registered identity (address not the known sender) with
\* last_claim_at = T # 0, the cooldown check at time now rejects with
\* remaining T + W - now and issues no transfer when now < T + W, and
\* otherwise passes and issues the transfer to the registered address.
C3_CooldownBoundary ==
    [][\A r \in Reqs :
          (/\ pc[r] = "c_load"
           /\ pc'[r] # "c_load"
           /\ reply'.kind # "Raised"
           /\ user[r] \in DOMAIN store
           /\ ~IsSender(store[user[r]].address)
           /\ store[user[r]].last_claim_at # 0)
          => LET T == store[user[r]].last_claim_at
                 W == COOLDOWN_SECONDS
             IN  IF now < T + W
                 THEN /\ pc'[r] = "idle"
                      /\ reply'.to = r
                      /\ reply'.kind = "Cooldown"
                      /\ reply'.rem = T + W - now
                 ELSE /\ pc'[r] = "c_transfer"
                      /\ to_addr'[r] = store[user[r]].address
                      /\ t'[r] = now]_vars

\* C3 witness: a claim made exactly at T + W, T # 0, has passed the check and
\* its transfer is in flight.
C3_Witness ==
    \E r \in Reqs :
        /\ pc[r] = "c_transfer"
        /\ user[r] \in DOMAIN store
        /\ store[user[r]].last_claim_at # 0
        /\ t[r] = store[user[r]].last_claim_at + COOLDOWN_SECONDS

\* C4 (as stated): once an identity's claim made at t = 0 is committed, its
\* claim checked at t = W - 1 is rejected with CooldownActive, remaining 1.
C4_ScenarioAtZero ==
    [][\A r \in Reqs :
          (/\ pc[r] = "c_load"
           /\ pc'[r] # "c_load"
           /\ reply'.kind # "Raised"
           /\ user[r] \in DOMAIN store
           /\ ~IsSender(store[user[r]].address)
           /\ committed[user[r]] = 0
           /\ now = COOLDOWN_SECONDS - 1)
          => /\ pc'[r] = "idle"
             /\ reply'.kind = "Cooldown"
             /\ reply'.rem = 1]_vars

\* C5 (as stated): the last_claim_at stored for an identity never decreases.
C5_NeverRolledBack ==
    [][\A u \in DOMAIN store :
          u \in DOMAIN store' /\ store'[u].last_claim_at >= store[u].last_claim_at]_vars

\* C6 (as stated): a claim whose transfer was confirmed ends only with that
\* identity's last_claim_at in the store set to the claim's now.
C6_EveryTransferCommitted ==
    [][\A r \in Reqs :
          (pc[r] \in CommitPhase /\ pc'[r] = "idle")
              => /\ user[r] \in DOMAIN store'
                 /\ store'[user[r]].last_claim_at = t[r]]_vars

\* C7: the write of a registration stores the new address and the new
\* registered_at, keeps the last_claim_at the record had (0 for a first
\* registration) and leaves every other record alone.
C7_ReRegistrationKeepsCooldown ==
    [][\A r \in Reqs :
          (pc[r] = "r_replace" /\ pc'[r] = "r_unlock")
              => LET u == user[r]
                 IN  /\ DOMAIN store' = DOMAIN store \cup {u}
                     /\ store'[u].address = addr[r]
                     /\ store'[u].registered_at = t[r]
                     /\ store'[u].last_claim_at =
                            IF u \in DOMAIN store THEN store[u].last_claim_at ELSE 0
                     /\ \A v \in DOMAIN store : v # u => store'[v] = store[v]]_vars

\* C7 witness: an identity with a committed claim at T # 0 has just been
\* registered again, later than T, and its record still carries T.
C7_Witness ==
    \E r \in Reqs :
        /\ pc[r] = "r_unlock"
        /\ user[r] \in DOMAIN store
        /\ store[user[r]].address = addr[r]
        /\ store[user[r]].registered_at = t[r]
        /\ store[user[r]].last_claim_at # 0
        /\ store[user[r]].last_claim_at = committed[user[r]]
        /\ t[r] > committed[user[r]]

\* C8 (as stated): the commit of a claim leaves the address of the record it
\* re-reads as it is, so an address registered between the claim's check and
\* its commit is still the stored one afterwards.
C8_CommitKeepsAddress ==
    [][\A r \in Reqs :
          (pc[r] = "c_replace2" /\ pc'[r] = "c_unlock2" /\ user[r] \in DOMAIN store)
              => store'[user[r]].address = store[user[r]].address]_vars

\* C9: while the sender address is known, no registration of it is under way
\* or stored by a registration, no transfer to it is in flight, and the
\* rejections of it (at register and at claim) leave the store unchanged.
C9_SelfAddressGuard ==
    [][/\ \A r \in Reqs :
             /\ pc'[r] \in {"r_lock", "r_load", "r_replace", "r_unlock"}
                    => ~(sender_address' # None /\ addr'[r] = sender_address')
             /\ pc'[r] = "c_transfer"
                    => ~(sender_address' # None /\ to_addr'[r] = sender_address')
             /\ (pc[r] = "c_load" /\ pc'[r] # "c_load" /\ reply'.kind # "Raised"
                 /\ user[r] \in DOMAIN store
                 /\ sender_address # None
                 /\ store[user[r]].address = sender_address)
                    => /\ pc'[r] = "idle"
                       /\ reply'.kind = "SelfAddressClaim"
       /\ reply'.kind \in {"SelfAddress", "SelfAddressClaim"} => store' = store]_vars

\* C9 witness: a claim was just rejected because the record, registered while
\* the sender address was unknown, holds the sender address now known.
C9_Witness ==
    /\ reply.kind = "SelfAddressClaim"
    /\ sender_address # None
    /\ reply.user \in DOMAIN store
    /\ store[reply.user].address = sender_address

\* C10: at most one request holds the store lock, every handler inside a
\* locked section holds it, and the data file and the temp file change only
\* in a step of the one request holding the lock.
C10_MutualExclusion ==
    [][/\ Cardinality(lockHolders') <= 1
       /\ \A r \in Reqs : pc'[r] \in LockedStages => r \in lockHolders'
       /\ (store' # store \/ tmp' # tmp)
              => \E r \in Reqs : lockHolders = {r} /\ pc'[r] # pc[r]]_vars

\* C10 witness: one request holds the lock inside its commit while the other
\* waits for it.
C10_Witness ==
    \E r1, r2 \in Reqs :
        /\ r1 # r2
        /\ lockHolders = {r1}
        /\ pc[r1] \in {"r_replace", "c_replace2"}
        /\ pc[r2] \in WaitingStages

\* C11: no request has its transfer call in flight while it holds the store
\* lock, so the lock is never kept across the network call.
C11_TransferOutsideLock ==
    \A r \in Reqs : pc[r] = "c_transfer" => r \notin lockHolders

\* C11 witness: while the transfer of one identity's claim is pending, a
\* Register of another identity holds the lock and has written the store.
C11_Witness ==
    \E r1, r2 \in Reqs :
        /\ pc[r1] = "c_transfer"
        /\ pc[r2] = "r_unlock"
        /\ user[r1] # user[r2]
        /\ lockHolders = {r2}
        /\ store[user[r2]].address = addr[r2]

\* C12: whenever a request leaves an exclusive section of register_address,
\* claim or whoami, by its normal end or by an error raised by load_data or
\* save_data inside it, the lock is free afterwards; the lock is only ever
\* held by a request inside such a section.
C12_LockReleasedOnEveryExit ==
    [][/\ \A r \in Reqs :
             (pc[r] \in LockedStages /\ pc'[r] \notin LockedStages)
                 => lockHolders' = {}
       /\ \A r \in lockHolders' : pc'[r] \in LockedStages]_vars

\* C12 witness: a request holds the lock it acquired after an earlier
\* section was left by a failing save (its partial temp file is still there).
C12_Witness ==
    \E r \in Reqs :
        /\ lockHolders = {r}
        /\ pc[r] \in LockedStages
        /\ tmp.state = "partial"

\* C13: DATA_FILE only ever changes by being replaced with a completely
\* written temp file, and a crash of the process at any point of save_data
\* leaves DATA_FILE as it was: the previous snapshot up to os.replace, the
\* new one after it.  A load after the crash returns that ledger.
C13_CrashSafeSave ==
    [][/\ store' # store => (tmp.state = "complete" /\ store' = tmp.content)
       /\ \A r \in Reqs :
             (pc[r] \in SaveStages /\ pc'[r] = "idle" /\ reply'.kind = "none")
                 => /\ store' = store
                    /\ pc[r] \in {"r_replace", "c_replace2"}
                           => tmp.state = "complete"
                    /\ pc[r] \in {"r_unlock", "c_unlock2"}
                           => /\ user[r] \in DOMAIN store
                              /\ store[user[r]].address
                                    = (IF pc[r] = "r_unlock" THEN addr[r] ELSE to_addr[r])]_vars

\* C13 witness: the process crashed between the write of the temp file and
\* os.replace; the complete new snapshot is in the temp file, the store holds
\* the previous, different, non-empty one and nobody holds the lock.
C13_Witness ==
    /\ tmp.state = "complete"
    /\ lockHolders = {}
    /\ \A r \in Reqs : pc[r] = "idle"
    /\ store # tmp.content
    /\ DOMAIN store # {}

\* C14: Register confirms the stored address, and Claim reports success,
\* only in a step that follows the completed save of that same request, with
\* the store holding what it saved; a request whose load or save raises ends
\* with the error, not with a success message, and leaves the store as it was.
C14_SuccessOnlyAfterSave ==
    [][/\ reply'.kind = "Registered"
              => LET r == reply'.to
                 IN  /\ pc[r] = "r_unlock"
                     /\ store' = store
                     /\ store[user[r]].address = addr[r]
                     /\ store[user[r]].registered_at = t[r]
                     /\ reply'.addr = addr[r]
       /\ reply'.kind = "ClaimOK"
              => LET r == reply'.to
                 IN  /\ pc[r] = "c_unlock2"
                     /\ store' = store
                     /\ store[user[r]].last_claim_at = t[r]
                     /\ reply'.addr = to_addr[r]
       /\ \A r \in Reqs :
             (pc[r] \in {"r_load", "c_load2"} /\ pc'[r] = "idle")
                 => /\ reply'.kind = "Raised"
                    /\ reply'.to = r
                    /\ store' = store]_vars

\* C14 witness: a claim has just reported success; its save is complete (no
\* temp file is left) and the store holds the committed timestamp.
C14_Witness ==
    /\ reply.kind = "ClaimOK"
    /\ tmp = NoTmp
    /\ reply.user \in DOMAIN store
    /\ store[reply.user].address = reply.addr
    /\ store[reply.user].last_claim_at = committed[reply.user]
    /\ committed[reply.user] > 0

\* The reference validator: exactly ADDR_LEN characters, all of them hex.
Is40Hex(x) == Len(x) = ADDR_LEN /\ \A i \in 1..Len(x) : x[i] \in HexChars

\* C15 (as stated): register_address answers InvalidFormat for every
\* argument that is not exactly 40 hex characters, surrounding whitespace
\* included, and accepts every 40-hex argument as its lowercase form.
C15_NormalizeStrict ==
    [][\A r \in Reqs :
          /\ reply'.kind = "InvalidFormat" => ~Is40Hex(reply'.arg)
          /\ (pc[r] = "idle" /\ pc'[r] = "r_lock")
                => /\ Is40Hex(reply'.arg)
                   /\ addr'[r] = Lower(reply'.arg)]_vars

\* C15 (amended): normalize strips surrounding whitespace first.  It fails
\* InvalidFormat exactly for the arguments whose stripped form is not 40 hex
\* characters, returns the lowercase of the stripped form for the others,
\* and is idempotent on what it returns.
C15_NormalizeAfterStrip ==
    [][\A r \in Reqs :
          /\ reply'.kind = "InvalidFormat" => ~Is40Hex(Strip(reply'.arg))
          /\ (pc[r] = "idle" /\ pc'[r] = "r_lock")
                => /\ Is40Hex(Strip(reply'.arg))
                   /\ addr'[r] = Lower(Strip(reply'.arg))
                   /\ Is40Hex(addr'[r])
                   /\ normalize_addr(addr'[r]) = [ok |-> TRUE, value |-> addr'[r]]]_vars

\* C15 witness: a mixed-case address with whitespace around it was accepted
\* and the handler holds its stripped, lowercase form.
C15_Witness ==
    \E r \in Reqs :
        /\ pc[r] = "r_lock"
        /\ Len(reply.arg) > ADDR_LEN
        /\ Strip(reply.arg) # Lower(Strip(reply.arg))
        /\ addr[r] = Lower(Strip(reply.arg))

\* C16: a write of the store by a Register or a Claim commit of one identity
\* leaves every other identity's record as it was; a commit that finds the
\* address its claim read changes nothing but last_claim_at; and every
\* record's last_claim_at is that of the identity's own latest commit (0 if
\* it has none).
C16_NoLostUpdatesAcrossIdentities ==
    [][/\ store' # store
              => \E r \in Reqs :
                    /\ lockHolders = {r}
                    /\ pc[r] \in {"r_replace", "c_replace2"}
                    /\ DOMAIN store' = DOMAIN store \cup {user[r]}
                    /\ \A u \in DOMAIN store : u # user[r] => store'[u] = store[u]
                    /\ (pc[r] = "c_replace2" /\ store[user[r]].address = to_addr[r])
                           => store'[user[r]] =
                                  [store[user[r]] EXCEPT !.last_claim_at = t[r]]
       /\ \A u \in DOMAIN store' :
             store'[u].last_claim_at =
                 IF committed'[u] = NoTime THEN 0 ELSE committed'[u]]_vars

\* C16 witness: a Register of one identity has written the store while a
\* claim of another identity is between its transfer and its commit; both
\* records are in the store.
C16_Witness ==
    \E r1, r2 \in Reqs :
        /\ pc[r1] = "r_unlock"
        /\ pc[r2] = "c_lock2"
        /\ user[r1] # user[r2]
        /\ user[r1] \in DOMAIN store
        /\ user[r2] \in DOMAIN store
        /\ store[user[r2]].address = to_addr[r2]

\* What an answer says by its status or by its text.
SaysUnknownRecipient(resp) ==
    ~resp.timeout /\ (resp.status = 404 \/ "unknown recipient address" \in resp.body)
SaysInsufficient(resp) ==
    ~resp.timeout /\ (resp.status = 400 \/ "insufficient credits" \in resp.body)

\* C17 (as stated): a failed transfer is reported as unknown-recipient only
\* for an answer that says unknown recipient (by status or text), as
\* faucet-exhausted only for one that says insufficient credits, and as
\* generic for every other failure (other status, other body, timeout,
\* malformed answer).
C17_ClassificationFaithful ==
    [][\A r \in Reqs :
          (pc[r] = "c_transfer" /\ pc'[r] = "idle")
              => LET resp == reply'.resp
                 IN  /\ reply'.kind = "UnknownRecipient" => SaysUnknownRecipient(resp)
                     /\ reply'.kind = "Insufficient" => SaysInsufficient(resp)
                     /\ (~SaysUnknownRecipient(resp) /\ ~SaysInsufficient(resp))
                            => reply'.kind = "Generic"]_vars

\* C18: a claim of an identity that has no record ends NotRegistered, with
\* no transfer issued and the store unchanged; a transfer is only ever
\* issued to the address found in the identity's own record, and a record's
\* address is only ever written from the argument of that identity's
\* Register (or written back by its claim's commit).
C18_NotRegisteredNoTransfer ==
    [][\A r \in Reqs :
          /\ (pc[r] = "c_load" /\ pc'[r] # "c_load" /\ reply'.kind # "Raised"
              /\ user[r] \notin DOMAIN store)
                 => /\ pc'[r] = "idle"
                    /\ reply'.kind = "NotRegistered"
                    /\ reply'.to = r
                    /\ store' = store
          /\ pc'[r] = "c_transfer"
                 => /\ user'[r] \in DOMAIN store'
                    /\ pc[r] = "c_load" => to_addr'[r] = store[user[r]].address
                    /\ to_addr'[r] # <<>>
          /\ (pc[r] = "r_replace" /\ pc'[r] = "r_unlock")
                 => store'[user[r]].address = addr[r]
          /\ (pc[r] = "c_replace2" /\ pc'[r] = "c_unlock2")
                 => store'[user[r]].address = to_addr[r]]_vars

\* C18 witness: a claim of an identity without a record was just refused
\* while another identity is registered.
C18_Witness ==
    /\ reply.kind = "NotRegistered"
    /\ reply.user \notin DOMAIN store
    /\ DOMAIN store # {}
    /\ \A r \in Reqs : pc[r] # "c_transfer"

\* C19: whoami shows "ready" exactly when the cooldown test of claim on the
\* same record at the same time lets the claim pass, and otherwise shows the
\* remaining time last_claim_at + W - t, in the same hours and minutes, that
\* claim computes; no step of whoami changes the store.
C19_WhoAmIAgreesWithClaim ==
    [][\A r \in Reqs :
          /\ (pc[r] = "w_load" /\ pc'[r] = "idle" /\ reply'.kind # "Raised"
              /\ user[r] \in DOMAIN store)
                 => LET T == store[user[r]].last_claim_at
                        W == COOLDOWN_SECONDS
                    IN  IF CooldownActive(T, now)
                        THEN /\ reply'.kind = "WhoAmIRemaining"
                             /\ reply'.rem = T + W - now
                             /\ reply'.h = (T + W - now) \div 3600
                             /\ reply'.m = ((T + W - now) % 3600) \div 60
                        ELSE reply'.kind = "WhoAmIReady"
          /\ ((pc[r] \in {"w_lock", "w_load"} \/ pc'[r] \in {"w_lock", "w_load"})
              /\ pc'[r] # pc[r])
                 => (store' = store /\ tmp' = tmp)]_vars

\* C19 witness: whoami has just shown "ready" at exactly last_claim_at + W,
\* the first second at which a claim passes.
C19_Witness ==
    /\ reply.kind = "WhoAmIReady"
    /\ reply.user \in DOMAIN store
    /\ store[reply.user].last_claim_at # 0
    /\ now = store[reply.user].last_claim_at + COOLDOWN_SECONDS

\* C20: from the transfer to the end of the commit a claim keeps the
\* destination it read, and the commit stores that destination as the
\* identity's address, whatever Register of the same identity wrote in
\* between.
C20_CommittedAddressIsPayout ==
    [][\A r \in Reqs :
          /\ (pc[r] \in {"c_transfer", "c_lock2", "c_load2", "c_replace2"}
              /\ pc'[r] # "idle")
                 => to_addr'[r] = to_addr[r]
          /\ pc'[r] = "c_unlock2"
                 => /\ store'[user'[r]].address = to_addr'[r]
                    /\ store'[user'[r]].last_claim_at = t'[r]]_vars

\* C20 witness: a claim has committed after a Register of the same identity
\* completed between its check and its commit (registered_at is later than
\* the claim's t), and the stored address is the transfer's destination.
C20_Witness ==
    \E r \in Reqs :
        /\ pc[r] = "c_unlock2"
        /\ store[user[r]].registered_at > t[r]
        /\ store[user[r]].address = to_addr[r]

====
